---------------------------- MODULE Spec2Model ----------------------------
(***************************************************************************)
(* Model of the scEM_seq read-processing scripts:                          *)
(*   add_cb_umi_to_fastq.py     (whitelist filter, header encoder and      *)
(*                               mate synchronizer)          -> SpecFastq  *)
(*   split_bam_by_cb.py         (barcode router)             -> SpecRouter *)
(*   count_umi_from_bam_folder.py (tag aggregator)           -> SpecAgg    *)
(*                                                                         *)
(* Python strings are modelled as sequences of tokens, one token per       *)
(* character wherever the code inspects characters (slicing, splitting on  *)
(* "_", strip, replace, regex, sorting); text the code only copies, such   *)
(* as "R1" or "[WARN]", is a single token.  Records arrive one at a time   *)
(* from the record parser (Bio.SeqIO / pysam); the streams are inputs,     *)
(* drawn record by record.                                                 *)
(***************************************************************************)
EXTENDS Integers, Sequences, FiniteSets, TLC

\* ------------------------------------------------------------------ bounds
MaxReads1 == 3      \* longest mate-1 stream explored
MaxReads2 == 2      \* longest mate-2 stream explored
MaxCbLen == 2       \* largest --cb-len explored
MaxUmiLen == 1      \* largest --umi-len explored
MaxBamReads == 3    \* longest alignment stream routed
MaxTagReads == 3    \* most records in one counted container

\* ------------------------------------------------------- string primitives
Min(a, b) == IF a < b THEN a ELSE b

\* Python s[lo:hi] for 0 <= lo, 0 <= hi (indices clamp to len(s)).
PySlice(s, lo, hi) ==
  LET l == Min(lo, Len(s))
      h == Min(hi, Len(s))
  IN  IF l >= h THEN << >> ELSE SubSeq(s, l + 1, h)

\* s.startswith(p, at) with at a 1-based position.
StartsAt(s, p, at) ==
  /\ at + Len(p) - 1 <= Len(s)
  /\ \A k \in 1..Len(p) : s[at + k - 1] = p[k]

\* Python str.replace(old, new) for non-empty old: every non-overlapping
\* occurrence, scanning left to right.
RECURSIVE ReplaceFrom(_, _, _, _)
ReplaceFrom(s, old, new, at) ==
  IF at > Len(s) THEN << >>
  ELSE IF StartsAt(s, old, at)
       THEN new \o ReplaceFrom(s, old, new, at + Len(old))
       ELSE << s[at] >> \o ReplaceFrom(s, old, new, at + 1)

PyReplace(s, old, new) == ReplaceFrom(s, old, new, 1)

\* Python str.strip() restricted to the blank character.
RECURSIVE LStrip(_)
LStrip(s) == IF s # << >> /\ Head(s) = " " THEN LStrip(Tail(s)) ELSE s

RECURSIVE RStrip(_)
RStrip(s) ==
  IF s # << >> /\ s[Len(s)] = " " THEN RStrip(SubSeq(s, 1, Len(s) - 1)) ELSE s

PyStrip(s) == RStrip(LStrip(s))

\* Python str.split(sep) for a one-character sep: always at least one field.
RECURSIVE SplitFrom(_, _, _, _)
SplitFrom(s, sep, at, cur) ==
  IF at > Len(s) THEN << cur >>
  ELSE IF s[at] = sep
       THEN << cur >> \o SplitFrom(s, sep, at + 1, << >>)
       ELSE SplitFrom(s, sep, at + 1, Append(cur, s[at]))

PySplit(s, sep) == SplitFrom(s, sep, 1, << >>)

RECURSIVE SumSeq(_)
SumSeq(s) == IF s = << >> THEN 0 ELSE Head(s) + SumSeq(Tail(s))

\* sum(d.values()) of a dict modelled as a function.
RECURSIVE SumValues(_)
SumValues(d) ==
  IF DOMAIN d = {} THEN 0
  ELSE LET k == CHOOSE x \in DOMAIN d : TRUE
       IN  d[k] + SumValues([x \in DOMAIN d \ {k} |-> d[x]])

\* d[k] = v on a dict modelled as a function.
DictSet(d, k, v) == [x \in DOMAIN d \cup {k} |-> IF x = k THEN v ELSE d[x]]

\* d.get(k, dflt)
DictGet(d, k, dflt) == IF k \in DOMAIN d THEN d[k] ELSE dflt

EmptyDict == [x \in {} |-> 0]

\* ------------------------------------------------------------ input domain
\* Read identities as SeqIO gives them (record.id is the first
\* whitespace-delimited word of the title line, so it holds no blank).
\* "1:N:0:" spells the mate marker without its leading blank; "read7" stands
\* for a mate-2-only fragment.
IdR1     == << "r", "1" >>
IdMarker == << "1", ":", "N", ":", "0", ":" >>
IdRead7  == << "r", "7" >>

Ids1 == { IdR1, IdMarker }
Ids2 == { IdR1, IdMarker, IdRead7 }

\* Mate-1 sequences: one too short for most settings, and two whose prefix is
\* whitelisted or not depending on cb_len and on the whitelist file.
Seqs1 == { << "A" >>,
           << "A", "A", "T" >>,
           << "A", "C", "G", "T" >> }

Seqs2 == { << "G", "G" >> }

\* record.letter_annotations["phred_quality"]: one score per base.
PhredOf(seq) == [k \in 1..Len(seq) |-> 30 + k]

\* A third mate-1 identity, so that a mate-1 stream can hold three distinct
\* identities.
IdR3 == << "r", "3" >>

\* The mate-1 records explored: every sequence under IdR1, the two long
\* ones under IdMarker, one under IdR3.
Records1 ==
  { [id |-> i, seq |-> s, phred |-> PhredOf(s)] :
      i \in Ids1, s \in Seqs1 \ { << "A" >> } }
    \cup { [id |-> IdR1, seq |-> << "A" >>, phred |-> PhredOf(<< "A" >>)],
            [id |-> IdR3, seq |-> << "A", "A", "T" >>,
             phred |-> PhredOf(<< "A", "A", "T" >>)] }
Records2 == { [id |-> i, seq |-> s, phred |-> PhredOf(s)] : i \in Ids2, s \in Seqs2 }

\* Whitelist files as sequences of raw lines.
WhitelistFiles ==
  { << >>,
    << << >>, << " " >> >>,
    << << "A", "A" >> >>,
    << << "A", "A" >>, << >>, << " ", "A", " " >>, << "A", "A" >> >> }

\* ---------------------------------------------------------------- variables
VARIABLES
  pc,               \* position of add_cb_umi_to_fastq.main
  err,              \* exception that ended the run, "" when none
  cb_len, umi_len,  \* args.cb_len, args.umi_len
  cb_list,          \* whitelist set returned by read_cell_barcodes
  seen1,            \* mate-1 records parsed so far
  accepted1,        \* loop locals (id, seq, cb, umi) of accepted iterations
  out1,             \* records written to out1
  cb_umi_dict,      \* identity -> new header
  cb_count,         \* CB -> accepted reads
  total_reads,
  invalid_cb_reads,
  seen2,            \* mate-2 records parsed so far
  out2,             \* records written to out2
  missing_r2,
  summary           \* what write_cb_summary reported, << >> when nothing

VARIABLES
  r_pc,             \* position of split_bam_by_cb.main
  header_text,      \* SAM header block of the source, as lines
  written_cbs,      \* CBs whose partition has been created by this run
  r_files,          \* output directory: path -> lines of the file
  r_seen,           \* alignment records fetched so far
  r_stdout          \* lines printed by the router

routerVars == << r_pc, header_text, written_cbs, r_files, r_seen, r_stdout >>

VARIABLES
  a_pc,             \* position of count_umi_from_bam_folder.main
  bam_files,        \* sorted(bam_files) still to be counted
  fbam,             \* the container being counted, << >> when none
  tag_count,        \* tag -> count of the open container, in insertion order
  a_seen,           \* query names fetched from the open container
  a_done,           \* containers counted so far with the names they held
  barcode_list,     \* summary rows [barcode, umi_count, reads_number]
  a_details,        \* detail tables written: path -> rows
  a_summary,        \* the summary table written to out_f, << >> when none
  a_stdout          \* lines printed by the aggregator

aggVars == << a_pc, bam_files, fbam, tag_count, a_seen, a_done, barcode_list,
              a_details, a_summary, a_stdout >>

fastqVars == << pc, err, cb_len, umi_len, cb_list, seen1, accepted1, out1,
                cb_umi_dict, cb_count, total_reads, invalid_cb_reads,
                seen2, out2, missing_r2, summary >>

vars == << fastqVars, routerVars, aggVars >>

\* A script that is not run keeps its variables at these values.
FastqIdle ==
  /\ pc = "idle"
  /\ err = ""
  /\ cb_len = 0
  /\ umi_len = 0
  /\ cb_list = {}
  /\ seen1 = << >>
  /\ accepted1 = << >>
  /\ out1 = << >>
  /\ cb_umi_dict = EmptyDict
  /\ cb_count = EmptyDict
  /\ total_reads = 0
  /\ invalid_cb_reads = 0
  /\ seen2 = << >>
  /\ out2 = << >>
  /\ missing_r2 = 0
  /\ summary = << >>

AggIdle ==
  /\ a_pc = "idle"
  /\ bam_files = << >>
  /\ fbam = << >>
  /\ tag_count = << >>
  /\ a_seen = << >>
  /\ a_done = << >>
  /\ barcode_list = << >>
  /\ a_details = [x \in {} |-> << >>]
  /\ a_summary = << >>
  /\ a_stdout = << >>

RouterIdle ==
  /\ r_pc = "idle"
  /\ header_text = << >>
  /\ written_cbs = {}
  /\ r_files = [x \in {} |-> << >>]
  /\ r_seen = << >>
  /\ r_stdout = << >>

\* -------------------------------------------------------- split_bam_by_cb.py
\* Alignment record names (read.query_name): four fields, five fields, an
\* empty CB field, and names with too few fields.
QNames == { << "A", "_", "u", "_", "1", "_", "R" >>,
            << "B", "_", "u", "_", "1", "_", "R" >>,
            << "_", "u", "_", "1", "_", "R" >>,
            << "A", "_", "u", "_", "1", "_", "R", "_", "x" >>,
            << "A", "_", "u", "_", "1" >>,
            << "A", "B" >> }

\* An alignment record: its name and the rest of its SAM line.
BamReads == { [query_name |-> n, flag |-> f] : n \in QNames, f \in { "0", "16" } }

\* read.to_string() + "\n": one SAM line, led by the query name.
ToStringLine(read) == read.query_name \o << "\t", read.flag >>

\* str(pysam.AlignmentHeader.from_dict(bamfile.header)), as lines.
HeaderTexts == { << >>, << << "@HD" >>, << "@SQ" >> >> }

\* The input path given on the command line.
BamFilePath == << "i", "n", "/", "s", ".", "b", "a", "m" >>

\* os.path.basename(p): the text after the last "/".
PyBasename(p) == LET parts == PySplit(p, "/") IN parts[Len(parts)]

\* basename = os.path.basename(bam_file_path).replace(".bam", "")
Basename == PyReplace(PyBasename(BamFilePath), << ".", "b", "a", "m" >>, << >>)

\* os.path.join(output_dir, f"{basename}_{cb}.sam")
OutPath(cb) ==
  << "split_bam_files_sam", "/" >> \o Basename \o << "_" >> \o cb
     \o << ".", "s", "a", "m" >>

\* Variant of ExtractCbFromReadName that asks for three fields only.
ExtractCbFromReadName_Three(read_name) ==
  LET parts == PySplit(read_name, "_")
  IN  IF Len(parts) < 3 THEN << >> ELSE << parts[1] >>

\* extract_cb_from_read_name: << >> stands for None, << cb >> for a CB.
ExtractCbFromReadName(read_name) ==
  LET parts == PySplit(read_name, "_")
  IN  IF Len(parts) < 4 THEN << >> ELSE << parts[1] >>

\* Variant of FirstOccurrence that never finds the CB recorded.
FirstOccurrence_Always(cb, written) == TRUE

\* cb not in written_cbs
FirstOccurrence(cb, written) == cb \notin written

\* with open(path, "w") as f: f.write(...) -- truncates, then writes.
WriteTruncating(files, path, lines) == DictSet(files, path, lines)

\* with open(path, "a") as f: f.write(...) -- creates or extends.
WriteAppending(files, path, lines) ==
  DictSet(files, path, DictGet(files, path, << >>) \o lines)

\* Output directories the run may start in: empty, or holding a file left
\* by an earlier run under the path of CB "A".
StaleLine == << "s", "t", "a", "l", "e" >>
InitialOutputDirs ==
  { [x \in {} |-> << >>],
    [x \in { OutPath(<< "A" >>) } |-> << StaleLine >>] }

RouterInit ==
  /\ FastqIdle
  /\ AggIdle
  /\ r_pc = "start"
  /\ header_text = << >>
  /\ written_cbs = {}
  /\ r_files \in InitialOutputDirs
  /\ r_seen = << >>
  /\ r_stdout = << >>

\* main, up to the loop: argument and path checks, header conversion.
RouterStart(argc, bamExists, header) ==
  /\ r_pc = "start"
  /\ IF argc # 2
     THEN /\ r_pc' = "exit1"
          /\ r_stdout' = Append(r_stdout, << "Usage" >>)
          /\ UNCHANGED header_text
     ELSE IF ~bamExists
          THEN /\ r_pc' = "exit1"
               /\ r_stdout' = Append(r_stdout, << "[ERROR]" >>)
               /\ UNCHANGED header_text
          ELSE /\ r_pc' = "fetch"
               /\ r_stdout' = Append(r_stdout, << "[INFO]" >>)
               /\ header_text' = header
  /\ UNCHANGED << written_cbs, r_files, r_seen >>
  /\ UNCHANGED << fastqVars, aggVars >>

\* main: one iteration of the loop over bamfile.fetch(until_eof=True).
RouteRead(read) ==
  /\ r_pc = "fetch"
  /\ Len(r_seen) < MaxBamReads
  /\ r_seen' = Append(r_seen, read)
  /\ LET cb == ExtractCbFromReadName(read.query_name)
     IN  IF cb = << >>
         THEN /\ r_stdout' = Append(r_stdout, << "[WARN]" >> \o read.query_name)
              /\ UNCHANGED << written_cbs, r_files >>
         ELSE LET out_path == OutPath(cb[1])
              IN  /\ IF FirstOccurrence(cb[1], written_cbs)
                     THEN /\ r_files' = WriteTruncating(r_files, out_path,
                                 header_text \o << ToStringLine(read) >>)
                          /\ written_cbs' = written_cbs \cup { cb[1] }
                     ELSE /\ r_files' = WriteAppending(r_files, out_path,
                                 << ToStringLine(read) >>)
                          /\ UNCHANGED written_cbs
                  /\ UNCHANGED r_stdout
  /\ UNCHANGED << r_pc, header_text >>
  /\ UNCHANGED << fastqVars, aggVars >>

\* main: the stream is exhausted.
RouterFinish ==
  /\ r_pc = "fetch"
  /\ r_pc' = "done"
  /\ r_stdout' = Append(r_stdout, << "[INFO]" >>)
  /\ UNCHANGED << header_text, written_cbs, r_files, r_seen >>
  /\ UNCHANGED << fastqVars, aggVars >>

RouterNext ==
  \/ \E argc \in { 1, 2 }, e \in BOOLEAN, h \in HeaderTexts : RouterStart(argc, e, h)
  \/ \E read \in BamReads : RouteRead(read)
  \/ RouterFinish

SpecRouter == RouterInit /\ [][RouterNext]_vars

\* ----------------------------------------------- count_umi_from_bam_folder.py
\* Characters of the file names below, in code-point order.
CodePointOrder == << ".", "/", "3", "A", "C", "Z", "_", "a", "b", "c", "d", "e", "i", "l", "m", "n", "o", "p", "r", "s", "t", "u", "x" >>

CodeRank(c) == CHOOSE k \in 1..Len(CodePointOrder) : CodePointOrder[k] = c

\* a < b for Python strings.
RECURSIVE StrLess(_, _)
StrLess(a, b) ==
  IF b = << >> THEN FALSE
  ELSE IF a = << >> THEN TRUE
  ELSE IF Head(a) = Head(b) THEN StrLess(Tail(a), Tail(b))
  ELSE CodeRank(Head(a)) < CodeRank(Head(b))

\* sorted(S) for a set of strings.
RECURSIVE PySorted(_)
PySorted(S) ==
  IF S = {} THEN << >>
  ELSE LET m == CHOOSE x \in S : \A y \in S \ {x} : StrLess(x, y)
       IN  << m >> \o PySorted(S \ {m})

EndsWith(s, suffix) ==
  Len(s) >= Len(suffix) /\ StartsAt(s, suffix, Len(s) - Len(suffix) + 1)

\* Names a scanned folder may hold.
FileDedup == << "a", "_", "c", "c", "3", "_", "s", "r", "t", "n", "_", "A", "C", ".", "d", "e", "d", "u", "p", "l", "i", "c", "a", "t", "e", "d", ".", "s", "r", "t", ".", "b", "a", "m" >>
FileShort == << "Z", ".", "s", "r", "t", ".", "b", "a", "m" >>
FileOther == << "n", "o", "t", "e", "s", ".", "t", "x", "t" >>
FolderPath == << "d" >>
Folders == SUBSET { FileDedup, FileShort, FileOther }

\* glob.glob(os.path.join(folder_path, "*srt.bam"))
GlobSrtBam(folder) ==
  { FolderPath \o << "/" >> \o f :
      f \in { g \in folder : EndsWith(g, << "s", "r", "t", ".", "b", "a", "m" >>) } }

\* re.search(r"_cc3_srtn_(.*?).deduplicated", basename): << >> when there is
\* no match, << group(1) >> otherwise.  The leftmost start wins, then the
\* shortest group; the unescaped "." takes any one character.
RegexPre  == << "_", "c", "c", "3", "_", "s", "r", "t", "n", "_" >>
RegexPost == << "d", "e", "d", "u", "p", "l", "i", "c", "a", "t", "e", "d" >>

RegexBarcode(basename) ==
  LET Ends(i) == { j \in (i + Len(RegexPre))..Len(basename) :
                     StartsAt(basename, RegexPost, j + 1) }
      starts  == { i \in 1..Len(basename) :
                     StartsAt(basename, RegexPre, i) /\ Ends(i) # {} }
  IN  IF starts = {} THEN << >>
      ELSE LET i == CHOOSE x \in starts : \A y \in starts : x <= y
               j == CHOOSE x \in Ends(i) : \A y \in Ends(i) : x <= y
           IN  << PySlice(basename, i + Len(RegexPre) - 1, j - 1) >>

\* os.path.splitext(basename)[0]: cut at the last "." unless only dots
\* precede it.
SplitextRoot(basename) ==
  LET dots == { k \in 1..Len(basename) : basename[k] = "." }
  IN  IF dots = {} THEN basename
      ELSE LET d == CHOOSE x \in dots : \A y \in dots : y <= x
           IN  IF \A k \in 1..(d - 1) : basename[k] = "."
               THEN basename
               ELSE SubSeq(basename, 1, d - 1)

\* extract_barcode_from_filename
ExtractBarcodeFromFilename(bam_path) ==
  LET basename == PyBasename(bam_path)
      m        == RegexBarcode(basename)
  IN  IF m # << >> THEN m[1] ELSE SplitextRoot(basename)

\* Query names of counted records: two names with tag R1, a name without "_"
\* (tag R2) and a name ending in "_" (empty tag).
TagNames == { << "A", "_", "u", "_", "R1" >>,
              << "B", "_", "R1" >>,
              << "R2" >>,
              << "A", "_" >> }

\* Variant of TagOf that takes the first field.
TagOf_First(query_name) ==
  LET name_parts == PySplit(query_name, "_")
  IN  IF name_parts # << >> THEN name_parts[1] ELSE << >>

\* name_parts[-1] if name_parts else ""
TagOf(query_name) ==
  LET name_parts == PySplit(query_name, "_")
  IN  IF name_parts # << >> THEN name_parts[Len(name_parts)] ELSE << >>

\* Variant of CountTag that starts a new tag at zero.
CountTag_FromZero(tc, tag) ==
  IF \A k \in 1..Len(tc) : tc[k].tag # tag
  THEN Append(tc, [tag |-> tag, count |-> 0])
  ELSE [k \in 1..Len(tc) |->
          IF tc[k].tag = tag THEN [tc[k] EXCEPT !.count = @ + 1] ELSE tc[k]]

\* if tag not in tag_count: tag_count[tag] = 1 else: tag_count[tag] += 1
\* (a dict keeps its keys in insertion order).
CountTag(tc, tag) ==
  IF \A k \in 1..Len(tc) : tc[k].tag # tag
  THEN Append(tc, [tag |-> tag, count |-> 1])
  ELSE [k \in 1..Len(tc) |->
          IF tc[k].tag = tag THEN [tc[k] EXCEPT !.count = @ + 1] ELSE tc[k]]

\* int(df["count"].sum())
CountColumnSum(df) == SumSeq([k \in 1..Len(df) |-> df[k].count])

AggInit ==
  /\ FastqIdle
  /\ RouterIdle
  /\ a_pc = "start"
  /\ bam_files = << >>
  /\ fbam = << >>
  /\ tag_count = << >>
  /\ a_seen = << >>
  /\ a_done = << >>
  /\ barcode_list = << >>
  /\ a_details = [x \in {} |-> << >>]
  /\ a_summary = << >>
  /\ a_stdout = << >>

\* main, up to the loop: argument and folder checks, glob, sorted.
AggStart(argc, isDir, folder) ==
  /\ a_pc = "start"
  /\ IF argc # 3
     THEN /\ a_pc' = "exit1"
          /\ a_stdout' = Append(a_stdout, << "Usage" >>)
          /\ UNCHANGED bam_files
     ELSE IF ~isDir
          THEN /\ a_pc' = "exit1"
               /\ a_stdout' = Append(a_stdout, << "[ERROR]" >>)
               /\ UNCHANGED bam_files
          ELSE IF GlobSrtBam(folder) = {}
               THEN /\ a_pc' = "exit0"
                    /\ a_stdout' = Append(a_stdout, << "[WARN]" >>)
                    /\ UNCHANGED bam_files
               ELSE /\ a_pc' = "next_bam"
                    /\ bam_files' = PySorted(GlobSrtBam(folder))
                    /\ UNCHANGED a_stdout
  /\ UNCHANGED << fbam, tag_count, a_seen, a_done, barcode_list, a_details,
                  a_summary >>
  /\ UNCHANGED << fastqVars, routerVars >>

\* main: the for loop takes the next file; umi_count_bam starts with an empty
\* tag_count and opens the container.
OpenBam ==
  /\ a_pc = "next_bam"
  /\ bam_files # << >>
  /\ fbam' = Head(bam_files)
  /\ bam_files' = Tail(bam_files)
  /\ tag_count' = << >>
  /\ a_seen' = << >>
  /\ a_pc' = "count"
  /\ UNCHANGED << a_done, barcode_list, a_details, a_summary, a_stdout >>
  /\ UNCHANGED << fastqVars, routerVars >>

\* umi_count_bam: one iteration of the loop over bam_file.fetch(until_eof=True).
CountRead(query_name) ==
  /\ a_pc = "count"
  /\ Len(a_seen) < MaxTagReads
  /\ a_seen' = Append(a_seen, query_name)
  /\ tag_count' = CountTag(tag_count, TagOf(query_name))
  /\ UNCHANGED << a_pc, bam_files, fbam, a_done, barcode_list, a_details,
                  a_summary, a_stdout >>
  /\ UNCHANGED << fastqVars, routerVars >>

\* umi_count_bam returns (umi_count, reads_number, df); main derives the
\* barcode, prints the row, appends it and writes the detail table.
FinishBam ==
  /\ a_pc = "count"
  /\ LET df           == tag_count
         umi_count    == Len(df)
         reads_number == CountColumnSum(df)
         barcode      == ExtractBarcodeFromFilename(fbam)
         detail_out   == PyBasename(fbam) \o << ".reads.info.txt" >>
         row          == [barcode |-> barcode, umi_count |-> umi_count,
                          reads_number |-> reads_number]
     IN  /\ a_stdout' = Append(a_stdout, PyBasename(fbam))
         /\ barcode_list' = Append(barcode_list, row)
         /\ a_details' = DictSet(a_details, detail_out, df)
  /\ a_done' = Append(a_done, [path |-> fbam, names |-> a_seen])
  /\ a_pc' = "next_bam"
  /\ UNCHANGED << bam_files, fbam, tag_count, a_seen, a_summary >>
  /\ UNCHANGED << fastqVars, routerVars >>

\* main, after the loop: build and write the summary table.
WriteSummaryTable ==
  /\ a_pc = "next_bam"
  /\ bam_files = << >>
  /\ a_summary' = << barcode_list >>
  /\ a_stdout' = Append(a_stdout, << "[INFO]" >>)
  /\ a_pc' = "done"
  /\ UNCHANGED << bam_files, fbam, tag_count, a_seen, a_done, barcode_list,
                  a_details >>
  /\ UNCHANGED << fastqVars, routerVars >>

AggNext ==
  \/ \E argc \in { 2, 3 }, d \in BOOLEAN, folder \in Folders : AggStart(argc, d, folder)
  \/ OpenBam
  \/ \E n \in TagNames : CountRead(n)
  \/ FinishBam
  \/ WriteSummaryTable

SpecAgg == AggInit /\ [][AggNext]_vars

\* --------------------------------------------------- add_cb_umi_to_fastq.py
\* read_cell_barcodes: strip every line, skip empty ones, collect a set.
CellBarcodes(lines) ==
  { PyStrip(lines[k]) : k \in { j \in 1..Len(lines) : PyStrip(lines[j]) # << >> } }

Marker1 == << " ", "1", ":", "N", ":", "0", ":" >>
Marker2 == << " ", "2", ":", "N", ":", "0", ":" >>

\* f"@{record.id}_{cb}_{umi} 1:N:0:{umi}"
NewReadName(id, cb, umi) ==
  << "@" >> \o id \o << "_" >> \o cb \o << "_" >> \o umi \o Marker1 \o umi

\* "".join(chr(q + 33) for q in phred_quality), as character codes.
QualString(phred) == [k \in 1..Len(phred) |-> phred[k] + 33]

\* Variant of TooShort that compares against the barcode length only.
TooShort_CbOnly(seq, cl, ul) == Len(seq) < cl

\* len(seq) < cb_len + umi_len
TooShort(seq, cl, ul) == Len(seq) < cl + ul

\* Variant of InWhitelist that accepts every barcode.
InWhitelist_AcceptAll(cb, whitelist) == TRUE

\* cb in cb_list
InWhitelist(cb, whitelist) == cb \in whitelist

\* Variant of IndexInsert that keeps the first header of an identity.
IndexInsert_KeepFirst(d, id, header) ==
  IF id \in DOMAIN d THEN d ELSE DictSet(d, id, header)

\* Variant of IndexInsert that rebinds the index to the new entry alone.
IndexInsert_OnlyNewest(d, id, header) == DictSet(EmptyDict, id, header)

\* cb_umi_dict[record.id] = new_read_name
IndexInsert(d, id, header) == DictSet(d, id, header)

\* Variant of MissingMate that looks the identity up among the headers.
MissingMate_InValues(read_id, d) ==
  read_id \notin { d[x] : x \in DOMAIN d }

\* read_id not in cb_umi_dict
MissingMate(read_id, d) == read_id \notin DOMAIN d

ExtractCb(seq, cl) == PySlice(seq, 0, cl)

ExtractUmi(seq, cl, ul) == PySlice(seq, cl, cl + ul)

\* Variant of R2Header that rewrites every "1" of the header.
R2Header_EveryOne(r1_header) == PyReplace(r1_header, << "1" >>, << "2" >>)

\* r1_header.replace(" 1:N:0:", " 2:N:0:")
R2Header(r1_header) == PyReplace(r1_header, Marker1, Marker2)

\* process_read1 as a function of its input: the cb_umi_dict it returns for
\* a mate-1 stream, a whitelist and the two lengths.
RECURSIVE ProcessRead1Index(_, _, _, _)
ProcessRead1Index(stream, whitelist, cl, ul) ==
  IF stream = << >> THEN EmptyDict
  ELSE LET before == ProcessRead1Index(SubSeq(stream, 1, Len(stream) - 1),
                                       whitelist, cl, ul)
           record == stream[Len(stream)]
           seq    == record.seq
           cb     == ExtractCb(seq, cl)
           umi    == ExtractUmi(seq, cl, ul)
       IN  IF TooShort(seq, cl, ul) \/ ~InWhitelist(cb, whitelist)
           THEN before
           ELSE IndexInsert(before, record.id, NewReadName(record.id, cb, umi))

FastqInit ==
  /\ RouterIdle
  /\ AggIdle
  /\ pc = "read_cell_barcodes"
  /\ err = ""
  /\ cb_len \in 0..MaxCbLen
  /\ umi_len \in 0..MaxUmiLen
  /\ cb_list = {}
  /\ seen1 = << >>
  /\ accepted1 = << >>
  /\ out1 = << >>
  /\ cb_umi_dict = EmptyDict
  /\ cb_count = EmptyDict
  /\ total_reads = 0
  /\ invalid_cb_reads = 0
  /\ seen2 = << >>
  /\ out2 = << >>
  /\ missing_r2 = 0
  /\ summary = << >>

\* main: cb_list = read_cell_barcodes(args.cb)
ReadCellBarcodes(cbExists, file) ==
  /\ pc = "read_cell_barcodes"
  /\ IF ~cbExists
     THEN /\ pc' = "failed"
          /\ err' = "FileNotFoundError:cb"
          /\ UNCHANGED cb_list
     ELSE IF CellBarcodes(file) = {}
          THEN /\ pc' = "failed"
               /\ err' = "ValueError:No barcodes found"
               /\ UNCHANGED cb_list
          ELSE /\ pc' = "open_read1"
               /\ cb_list' = CellBarcodes(file)
               /\ UNCHANGED err
  /\ UNCHANGED << cb_len, umi_len, seen1, accepted1, out1, cb_umi_dict,
                  cb_count, total_reads, invalid_cb_reads, seen2, out2,
                  missing_r2, summary >>
  /\ UNCHANGED << routerVars, aggVars >>

\* process_read1: the with statement opening in1 and out1.
OpenRead1(in1Exists) ==
  /\ pc = "open_read1"
  /\ IF in1Exists
     THEN pc' = "process_read1" /\ UNCHANGED err
     ELSE pc' = "failed" /\ err' = "FileNotFoundError:in1"
  /\ UNCHANGED << cb_len, umi_len, cb_list, seen1, accepted1, out1,
                  cb_umi_dict, cb_count, total_reads, invalid_cb_reads,
                  seen2, out2, missing_r2, summary >>
  /\ UNCHANGED << routerVars, aggVars >>

\* process_read1: one iteration of the loop over SeqIO.parse(f_in, "fastq").
ProcessRead1Record(record) ==
  /\ pc = "process_read1"
  /\ Len(seen1) < MaxReads1
  /\ seen1' = Append(seen1, record)
  /\ total_reads' = total_reads + 1
  /\ LET seq == record.seq
         cb  == ExtractCb(seq, cb_len)
         umi == ExtractUmi(seq, cb_len, umi_len)
         new_read_name == NewReadName(record.id, cb, umi)
     IN  IF TooShort(seq, cb_len, umi_len) \/ ~InWhitelist(cb, cb_list)
         THEN /\ invalid_cb_reads' = invalid_cb_reads + 1
              /\ UNCHANGED << accepted1, out1, cb_umi_dict, cb_count >>
         ELSE /\ out1' = Append(out1, [header |-> new_read_name, seq |-> seq,
                                       qual |-> QualString(record.phred)])
              /\ cb_umi_dict' = IndexInsert(cb_umi_dict, record.id, new_read_name)
              /\ cb_count' = DictSet(cb_count, cb, DictGet(cb_count, cb, 0) + 1)
              /\ accepted1' = Append(accepted1, [id |-> record.id, seq |-> seq,
                                                 cb |-> cb, umi |-> umi])
              /\ UNCHANGED invalid_cb_reads
  /\ UNCHANGED << pc, err, cb_len, umi_len, cb_list, seen2, out2, missing_r2,
                  summary >>
  /\ UNCHANGED << routerVars, aggVars >>

\* process_read1: the stream is exhausted, the function returns.
ProcessRead1Return ==
  /\ pc = "process_read1"
  /\ pc' = "open_read2"
  /\ UNCHANGED << err, cb_len, umi_len, cb_list, seen1, accepted1, out1,
                  cb_umi_dict, cb_count, total_reads, invalid_cb_reads,
                  seen2, out2, missing_r2, summary >>
  /\ UNCHANGED << routerVars, aggVars >>

\* process_read2: the with statement opening in2 and out2.
OpenRead2(in2Exists) ==
  /\ pc = "open_read2"
  /\ IF in2Exists
     THEN pc' = "process_read2" /\ UNCHANGED err
     ELSE pc' = "failed" /\ err' = "FileNotFoundError:in2"
  /\ UNCHANGED << cb_len, umi_len, cb_list, seen1, accepted1, out1,
                  cb_umi_dict, cb_count, total_reads, invalid_cb_reads,
                  seen2, out2, missing_r2, summary >>
  /\ UNCHANGED << routerVars, aggVars >>

\* process_read2: one iteration of the loop over SeqIO.parse(f_in, "fastq").
ProcessRead2Record(record) ==
  /\ pc = "process_read2"
  /\ Len(seen2) < MaxReads2
  /\ seen2' = Append(seen2, record)
  /\ IF MissingMate(record.id, cb_umi_dict)
     THEN /\ missing_r2' = missing_r2 + 1
          /\ UNCHANGED out2
     ELSE /\ out2' = Append(out2, [header |-> R2Header(cb_umi_dict[record.id]),
                                   seq |-> record.seq,
                                   qual |-> QualString(record.phred)])
          /\ UNCHANGED missing_r2
  /\ UNCHANGED << pc, err, cb_len, umi_len, cb_list, seen1, accepted1, out1,
                  cb_umi_dict, cb_count, total_reads, invalid_cb_reads,
                  summary >>
  /\ UNCHANGED << routerVars, aggVars >>

\* process_read2: the stream is exhausted, the function returns.
ProcessRead2Return ==
  /\ pc = "process_read2"
  /\ pc' = "write_cb_summary"
  /\ UNCHANGED << err, cb_len, umi_len, cb_list, seen1, accepted1, out1,
                  cb_umi_dict, cb_count, total_reads, invalid_cb_reads,
                  seen2, out2, missing_r2, summary >>
  /\ UNCHANGED << routerVars, aggVars >>

\* write_cb_summary: kept_reads / total_reads is evaluated while the message
\* is built, before anything is written.
WriteCbSummary ==
  /\ pc = "write_cb_summary"
  /\ LET kept_reads == SumValues(cb_count)
     IN  IF total_reads = 0
         THEN /\ pc' = "failed"
              /\ err' = "ZeroDivisionError"
              /\ UNCHANGED summary
         ELSE /\ pc' = "done"
              /\ summary' = << [total |-> total_reads, kept |-> kept_reads,
                             ratio |-> << kept_reads, total_reads >>,
                             invalid |-> invalid_cb_reads,
                             missing |-> missing_r2] >>
              /\ UNCHANGED err
  /\ UNCHANGED << cb_len, umi_len, cb_list, seen1, accepted1, out1,
                  cb_umi_dict, cb_count, total_reads, invalid_cb_reads,
                  seen2, out2, missing_r2 >>
  /\ UNCHANGED << routerVars, aggVars >>

FastqNext ==
  \/ \E e \in BOOLEAN, file \in WhitelistFiles : ReadCellBarcodes(e, file)
  \/ \E e \in BOOLEAN : OpenRead1(e)
  \/ \E record \in Records1 : ProcessRead1Record(record)
  \/ ProcessRead1Return
  \/ \E e \in BOOLEAN : OpenRead2(e)
  \/ \E record \in Records2 : ProcessRead2Record(record)
  \/ ProcessRead2Return
  \/ WriteCbSummary

SpecFastq == FastqInit /\ [][FastqNext]_vars

\* ------------------------------------------- properties of the FASTQ pipeline
\* The encoded header grammar: @<identity>_<CB>_<UMI> <mateTag>:N:0:<UMI>
EncodedHeader(id, cb, umi, mateTag) ==
  << "@" >> \o id \o << "_" >> \o cb \o << "_" >> \o umi
            \o << " ", mateTag, ":", "N", ":", "0", ":" >> \o umi

\* Positions at which two equally long strings differ.
DiffPositions(a, b) == { k \in 1..Len(a) : a[k] # b[k] }

\* Index of the last accepted mate-1 occurrence of an identity (0 when none).
LastAccepted(id) ==
  LET occ == { k \in 1..Len(accepted1) : accepted1[k].id = id }
  IN  IF occ = {} THEN 0 ELSE CHOOSE k \in occ : \A j \in occ : j <= k

\* The rejection rule of the contract, on a parsed mate-1 record.
RejectedByRule(record) ==
  \/ Len(record.seq) < cb_len + umi_len
  \/ SubSeq(record.seq, 1, cb_len) \notin cb_list

\* C1: every accepted mate-1 record has a CB of exactly cb_len characters that
\* is the prefix of its sequence and a member of the whitelist, and a UMI of
\* exactly umi_len characters that immediately follows the CB; the accepted
\* record is the one emitted, with its sequence unchanged.
C1_AcceptedCbUmi ==
  /\ Len(out1) = Len(accepted1)
  /\ \A k \in 1..Len(accepted1) :
       LET a == accepted1[k]
       IN  /\ Len(a.cb) = cb_len
           /\ Len(a.umi) = umi_len
           /\ a.cb \in cb_list
           /\ Len(a.seq) >= cb_len + umi_len
           /\ \A j \in 1..cb_len : a.seq[j] = a.cb[j]
           /\ \A j \in 1..umi_len : a.seq[cb_len + j] = a.umi[j]
           /\ out1[k].seq = a.seq

C1_Witness ==
  /\ cb_len = 2 /\ umi_len = 1
  /\ \E k \in 1..Len(accepted1) :
       accepted1[k].cb = << "A", "A" >> /\ accepted1[k].umi = << "T" >>
  /\ invalid_cb_reads >= 1

\* C2: a mate-1 record is rejected exactly when it is shorter than
\* cb_len + umi_len or its CB is not whitelisted; a rejection adds one to the
\* rejected counter and changes neither index, output nor counts; after any
\* prefix of the stream seen = rejected + sum of counts = rejected + emitted,
\* and every index key is the identity of an emitted record.
C2_Counters ==
  /\ total_reads = Len(seen1)
  /\ total_reads = invalid_cb_reads + SumValues(cb_count)
  /\ total_reads = invalid_cb_reads + Len(out1)
  /\ \A id \in DOMAIN cb_umi_dict :
       \E k \in 1..Len(out1) :
         /\ accepted1[k].id = id
         /\ out1[k].header =
              EncodedHeader(id, accepted1[k].cb, accepted1[k].umi, "1")

C2_Step ==
  (seen1' # seen1) =>
    LET record == seen1'[Len(seen1')]
    IN  IF RejectedByRule(record)
        THEN /\ invalid_cb_reads' = invalid_cb_reads + 1
             /\ cb_umi_dict' = cb_umi_dict
             /\ out1' = out1
             /\ cb_count' = cb_count
        ELSE /\ invalid_cb_reads' = invalid_cb_reads
             /\ Len(out1') = Len(out1) + 1
             /\ record.id \in DOMAIN cb_umi_dict'

C2_RejectionRule == []C2_Counters /\ [][C2_Step]_vars

C2_Witness ==
  /\ invalid_cb_reads >= 2
  /\ Len(out1) >= 1
  /\ \E k \in 1..Len(seen1) : Len(seen1[k].seq) < cb_len + umi_len
  /\ \E k \in 1..Len(seen1) :
       /\ Len(seen1[k].seq) >= cb_len + umi_len
       /\ SubSeq(seen1[k].seq, 1, cb_len) \notin cb_list

\* C3: every mate-2 record whose identity is absent from the index adds one
\* to missing_r2 and emits nothing, every other record emits exactly one
\* record, and emitted + missing = mate-2 records seen.
C3_Accounting ==
  LET present == { k \in 1..Len(seen2) : seen2[k].id \in DOMAIN cb_umi_dict }
  IN  /\ Len(out2) = Cardinality(present)
      /\ missing_r2 = Len(seen2) - Cardinality(present)
      /\ Len(out2) + missing_r2 = Len(seen2)

C3_Step ==
  (seen2' # seen2) =>
    LET record == seen2'[Len(seen2')]
    IN  IF record.id \in DOMAIN cb_umi_dict
        THEN /\ missing_r2' = missing_r2
             /\ Len(out2') = Len(out2) + 1
             /\ out2'[Len(out2')].seq = record.seq
        ELSE /\ missing_r2' = missing_r2 + 1
             /\ out2' = out2

C3_MateAccounting == []C3_Accounting /\ [][C3_Step]_vars

C3_Witness ==
  /\ pc = "write_cb_summary"
  /\ missing_r2 >= 1
  /\ Len(out2) >= 1
  /\ \E k \in 1..Len(seen2) : seen2[k].id = IdRead7

\* C4: the header emitted for a mate-2 record whose identity is indexed is
\* @<identity>_<CB>_<UMI> 2:N:0:<UMI> with the identity, CB and UMI that
\* process_read1 stored for that identity, and it differs from the indexed
\* mate-1 header in the mate marker only.
C4_Step ==
  (seen2' # seen2 /\ seen2'[Len(seen2')].id \in DOMAIN cb_umi_dict) =>
    LET id       == seen2'[Len(seen2')].id
        a        == accepted1[LastAccepted(id)]
        emitted  == out2'[Len(out2')].header
        markerAt == 1 + Len(id) + 1 + Len(a.cb) + 1 + Len(a.umi) + 2
    IN  /\ LastAccepted(id) # 0
        /\ cb_umi_dict[id] = EncodedHeader(id, a.cb, a.umi, "1")
        /\ emitted = EncodedHeader(id, a.cb, a.umi, "2")
        /\ Len(emitted) = Len(cb_umi_dict[id])
        /\ DiffPositions(emitted, cb_umi_dict[id]) = { markerAt }

C4_Mate2Header == [][C4_Step]_vars

C4_Witness ==
  \E k \in 1..Len(out2) :
    out2[k].header = EncodedHeader(IdMarker, << "A" >>, << "C" >>, "2")

\* C7 (as claimed): once write_cb_summary is called it completes and reports
\* the totals, and with total_reads = 0 it reports a ratio of zero.
C7_Step ==
  (pc = "write_cb_summary") =>
    /\ pc' = "done"
    /\ Len(summary') = 1
    /\ summary'[1].total = total_reads
    /\ summary'[1].invalid = invalid_cb_reads
    /\ summary'[1].missing = missing_r2
    /\ (total_reads = 0 => summary'[1].ratio[1] = 0)

C7_SummaryAlwaysCompletes == [][C7_Step]_vars

\* C8 (as claimed): a run that ends with a configuration error (whitelist
\* missing or empty, mate-1 path missing, mate-2 path missing) has processed
\* no input record and written no output record.
ConfigErrors == { "FileNotFoundError:cb", "ValueError:No barcodes found",
                  "FileNotFoundError:in1", "FileNotFoundError:in2" }

C8_ConfigErrorBeforeProcessing ==
  (pc = "failed" /\ err \in ConfigErrors) =>
    /\ seen1 = << >> /\ seen2 = << >>
    /\ out1 = << >> /\ out2 = << >>

\* C10: when an identity is accepted more than once in mate 1, the index
\* holds the header of its last accepted occurrence, while every accepted
\* occurrence is emitted and counted.
C10_LastOccurrenceWins ==
  /\ DOMAIN cb_umi_dict = { accepted1[k].id : k \in 1..Len(accepted1) }
  /\ \A id \in DOMAIN cb_umi_dict :
       LET a == accepted1[LastAccepted(id)]
       IN  cb_umi_dict[id] = EncodedHeader(id, a.cb, a.umi, "1")
  /\ Len(out1) = Len(accepted1)
  /\ \A k \in 1..Len(accepted1) :
       out1[k].header = EncodedHeader(accepted1[k].id, accepted1[k].cb,
                                      accepted1[k].umi, "1")
  /\ \A cb \in { accepted1[k].cb : k \in 1..Len(accepted1) } :
       /\ cb \in DOMAIN cb_count
       /\ cb_count[cb] =
            Cardinality({ k \in 1..Len(accepted1) : accepted1[k].cb = cb })

C10_Witness ==
  /\ pc = "open_read2"
  /\ \E j, k \in 1..Len(accepted1) :
       /\ j < k
       /\ accepted1[j].id = accepted1[k].id
       /\ accepted1[j].umi # accepted1[k].umi
       /\ LastAccepted(accepted1[k].id) = k

\* --------------------------------------------- properties of the barcode router
\* The identity grammar: fields separated by "_", CB = field 0.
Fields(name) == PySplit(name, "_")

RoutableIdx == { k \in 1..Len(r_seen) : Len(Fields(r_seen[k].query_name)) >= 4 }

CbFieldOf(read) == Fields(read.query_name)[1]

\* Lines of the routable records seen so far that carry the CB, input order.
RECURSIVE RoutedLines(_, _)
RoutedLines(cb, n) ==
  IF n = 0 THEN << >>
  ELSE IF n \in RoutableIdx /\ CbFieldOf(r_seen[n]) = cb
       THEN Append(RoutedLines(cb, n - 1), ToStringLine(r_seen[n]))
       ELSE RoutedLines(cb, n - 1)

\* The records of a partition: its lines after the header block.
PartitionRecords(cb) ==
  LET f == r_files[OutPath(cb)]
  IN  IF Len(f) <= Len(header_text) THEN << >>
      ELSE SubSeq(f, Len(header_text) + 1, Len(f))

Occurrences(seq, x) == Cardinality({ k \in 1..Len(seq) : seq[k] = x })

\* C5: a partition exists for exactly the CBs routed so far, and each one is
\* the source header block once, followed by every record routed to it so
\* far in input order; a later record of a CB only extends its partition.
C5_Layout ==
  /\ written_cbs = { CbFieldOf(r_seen[k]) : k \in RoutableIdx }
  /\ \A cb \in written_cbs :
       /\ OutPath(cb) \in DOMAIN r_files
       /\ r_files[OutPath(cb)] = header_text \o RoutedLines(cb, Len(r_seen))

C5_Step ==
  (r_seen' # r_seen /\ Len(Fields(r_seen'[Len(r_seen')].query_name)) >= 4) =>
    LET read == r_seen'[Len(r_seen')]
        path == OutPath(CbFieldOf(read))
    IN  IF CbFieldOf(read) \in written_cbs
        THEN r_files'[path] = r_files[path] \o << ToStringLine(read) >>
        ELSE r_files'[path] = header_text \o << ToStringLine(read) >>

C5_PartitionLayout == []C5_Layout /\ [][C5_Step]_vars

C5_Witness ==
  /\ header_text # << >>
  /\ { << "A" >>, << "B" >> } \subseteq written_cbs
  /\ Len(r_files[OutPath(<< "A" >>)]) = Len(header_text) + 2
  /\ r_files[OutPath(<< "A" >>)][Len(header_text) + 1] #
       r_files[OutPath(<< "A" >>)][Len(header_text) + 2]

\* C6: every record with at least four fields is written exactly once, to
\* the partition of its field 0, every record with fewer fields is reported
\* and written nowhere; partition record counts add up to the routable
\* records, and reported + routed = records read.
C6_RoutingAccounting ==
  LET warned == { k \in 1..Len(r_stdout) : Head(r_stdout[k]) = "[WARN]" }
      counts == [cb \in written_cbs |-> Len(PartitionRecords(cb))]
  IN  /\ \A k \in 1..Len(r_seen) :
           LET read == r_seen[k]
               line == ToStringLine(read)
           IN  IF k \in RoutableIdx
               THEN /\ CbFieldOf(read) \in written_cbs
                    /\ Occurrences(PartitionRecords(CbFieldOf(read)), line) =
                         Occurrences(r_seen, read)
                    /\ \A cb \in written_cbs \ { CbFieldOf(read) } :
                         Occurrences(PartitionRecords(cb), line) = 0
               ELSE /\ \A cb \in written_cbs :
                         Occurrences(PartitionRecords(cb), line) = 0
                    /\ Occurrences(r_stdout, << "[WARN]" >> \o read.query_name) =
                         Cardinality({ j \in 1..Len(r_seen) :
                             r_seen[j].query_name = read.query_name })
      /\ SumValues(counts) = Cardinality(RoutableIdx)
      /\ Cardinality(warned) + SumValues(counts) = Len(r_seen)

C6_Witness ==
  /\ r_pc = "done"
  /\ Cardinality(RoutableIdx) = 2
  /\ Len(r_seen) = 3
  /\ Cardinality(written_cbs) = 2
  /\ \E k \in 1..Len(r_seen) : Len(Fields(r_seen[k].query_name)) = 3

\* --------------------------------------------- properties of the tag aggregator
LastField(name) == LET f == Fields(name) IN f[Len(f)]

\* The tags of a sequence of query names, in order.
TagsOf(names) == [k \in 1..Len(names) |-> LastField(names[k])]

\* The table holds the count of every tag of the sequence, nothing else.
TableCounts(table, tags) ==
  /\ \A j, k \in 1..Len(table) : table[j].tag = table[k].tag => j = k
  /\ { table[k].tag : k \in 1..Len(table) } = { tags[k] : k \in 1..Len(tags) }
  /\ \A k \in 1..Len(table) :
       table[k].count = Cardinality({ j \in 1..Len(tags) : tags[j] = table[k].tag })

\* C9: for every container the detail table maps each last "_" field to the
\* number of records of that container carrying it, the unique-tag count is
\* the number of distinct tags and the total is the sum of the counts, which
\* is the number of records (0 for an empty container); the table of the
\* open container counts the records of that container only.
C9_TagCounts ==
  /\ Len(barcode_list) = Len(a_done)
  /\ \A c \in 1..Len(a_done) :
       LET tags   == TagsOf(a_done[c].names)
           detail == PyBasename(a_done[c].path) \o << ".reads.info.txt" >>
           row    == barcode_list[c]
       IN  /\ detail \in DOMAIN a_details
           /\ TableCounts(a_details[detail], tags)
           /\ row.umi_count = Cardinality({ tags[k] : k \in 1..Len(tags) })
           /\ row.reads_number = Len(a_done[c].names)
           /\ row.reads_number = CountColumnSum(a_details[detail])
  /\ (a_pc = "count") => TableCounts(tag_count, TagsOf(a_seen))

C9_Witness ==
  /\ a_pc = "done"
  /\ Len(a_done) = 2
  /\ \E k \in 1..Len(a_done[1].names) : LastField(a_done[1].names[k]) = << "R1" >>
  /\ barcode_list[1].barcode = << "Z", ".", "s", "r", "t" >>
  /\ barcode_list[2].barcode = << "A", "C" >>
  /\ barcode_list[2].reads_number = 3
  /\ barcode_list[2].umi_count = 2
  /\ a_details[FileDedup \o << ".reads.info.txt" >>] =
       << [tag |-> << "R1" >>, count |-> 2], [tag |-> << "R2" >>, count |-> 1] >>

\* ----------------------------------------- ordering of the mate synchronizer
\* Rearrangements of the positions 1..n.
Rearrangements(n) ==
  { p \in [1..n -> 1..n] : \A i, j \in 1..n : p[i] = p[j] => i = j }

UniqueIdentities(stream) ==
  \A i, j \in 1..Len(stream) : stream[i].id = stream[j].id => i = j

\* The mate-2 records whose identity is indexed, in stream order, each under
\* the mate-2 form of its indexed header.
RECURSIVE IndexedSubsequence(_, _)
IndexedSubsequence(index, stream) ==
  IF stream = << >> THEN << >>
  ELSE LET rest   == IndexedSubsequence(index, SubSeq(stream, 1, Len(stream) - 1))
           record == stream[Len(stream)]
       IN  IF record.id \in DOMAIN index
           THEN Append(rest, [header |-> R2Header(index[record.id]),
                              seq    |-> record.seq,
                              qual   |-> QualString(record.phred)])
           ELSE rest

\* C11: the records emitted by process_read2 are exactly the mate-2 records
\* whose identity is indexed, in mate-2 input order; and when the mate-1
\* identities are unique, every rearrangement of the mate-1 stream gives the
\* index the run built, hence the same mate-2 output.
C11_OrderIndependence ==
  (pc # "idle") =>
    /\ out2 = IndexedSubsequence(cb_umi_dict, seen2)
    /\ UniqueIdentities(seen1) =>
         LET Permuted(p) == [k \in 1..Len(seen1) |-> seen1[p[k]]]
             indexes == { ProcessRead1Index(Permuted(p), cb_list, cb_len, umi_len) :
                            p \in Rearrangements(Len(seen1)) }
         IN  /\ indexes = { cb_umi_dict }
             /\ \A index \in indexes : out2 = IndexedSubsequence(index, seen2)

C11_Witness ==
  /\ pc = "write_cb_summary"
  /\ Len(seen1) = 3
  /\ UniqueIdentities(seen1)
  /\ Cardinality(DOMAIN cb_umi_dict) = 3
  /\ Len(seen2) = 2
  /\ seen2[1].id = IdMarker
  /\ seen2[2].id = IdR1
  /\ seen1[1].id = IdR1
  /\ seen1[3].id = IdMarker
  /\ Len(out2) = 2

=============================================================================
